---- MODULE Spec2Model ----
(***************************************************************************)
(* feple-server: the Callytics ingestion pipeline (upload view -> Celery   *)
(* task -> external call -> Topic/File/Utterance rows) and the             *)
(* Consultlytics result schema, as state machines.                         *)
(*                                                                         *)
(* The database runs in Django's default autocommit mode: the task opens   *)
(* no transaction, so every ORM statement is one step whose effect is      *)
(* visible to every other task as soon as it is taken.                     *)
(***************************************************************************)
EXTENDS Integers, Sequences, FiniteSets, TLC

VARIABLES
    topics,       \* callytics Topic table: set of rows [id, name]
    files,        \* callytics File table: set of rows
    utterances,   \* callytics Utterance table: set of rows
    seqs,         \* the AutoField sequences of the three tables
    tasks,        \* the Celery tasks dispatched so far, in dispatch order
    uploads,      \* the HTTP upload requests handled so far, with their responses
    sessions,     \* consultlytics Session table
    emotionScores,\* consultlytics EmotionScore table
    categories,   \* consultlytics Category table
    scriptMetrics,\* consultlytics ScriptMetric table
    resultClassifications, \* consultlytics ResultClassification table
    dbResult,     \* outcome of the last consultlytics statement
    settings,     \* django.conf.settings of the process
    seconds       \* the last seconds property read from a row

vars == <<topics, files, utterances, seqs, tasks, uploads,
          sessions, emotionScores, categories, scriptMetrics,
          resultClassifications, dbResult, settings, seconds>>

callyticsVars == <<topics, files, utterances, seqs, tasks, uploads>>
consultVars == <<sessions, emotionScores, categories, scriptMetrics,
                 resultClassifications, dbResult>>

oneToOneVars == <<categories, scriptMetrics, resultClassifications>>

settingsVars == <<settings, seconds>>

-----------------------------------------------------------------------------
(* Bounds *)

\* tasks dispatched in one behaviour of Spec
MaxTasks == 2
\* longest utterances array the external service returns
MaxUtt == 2
\* upload requests handled in one behaviour
MaxUploads == 2
\* tasks dispatched in one behaviour of SpecDup (same path, same metadata)
MaxDup == 3
\* EmotionScore rows inserted in one behaviour of SpecConsult
MaxInserts == 4
\* rows inserted into each one-to-one table in one behaviour of SpecOneToOne
MaxOneToOne == 3

-----------------------------------------------------------------------------
(* Python values *)

\* Python's None
None == "None"

\* a local variable that holds a dict once assigned, before its assignment
Unset == [unset |-> TRUE]

\* dict.get(key): the value, or None when the key is absent
Get(map, key) == IF key \in DOMAIN map THEN map[key] ELSE None

\* dict.get(key, default)
GetOr(map, key, default) == IF key \in DOMAIN map THEN map[key] ELSE default

\* Python truthiness of the values a topic name can take
Truthy(v) == v # None /\ v # ""

\* Python's `a or b`
Or(a, b) == IF Truthy(a) THEN a ELSE b

\* a dict without one of its keys
Without(map, key) == [k \in DOMAIN map \ {key} |-> map[k]]

\* a dict with one more key
With(map, key, val) ==
    [k \in DOMAIN map \cup {key} |-> IF k = key THEN val ELSE map[k]]

-----------------------------------------------------------------------------
(* The result document of the Callytics service *)

\* the keys run_callytics_pipeline reads with result[...], in evaluation order
FileKeys ==
    << "name", "extension", "rate", "bit_depth", "channels", "duration",
       "min_freq", "max_freq", "rms_loud", "zero_cross", "spec_cent",
       "spec_bw", "spec_flat", "rolloff", "chroma_stft", "spec_contr",
       "tonnetz", "mfcc", "conflict", "silence" >>

\* the keys run_callytics_pipeline reads with utt[...], in evaluation order
UttKeys ==
    << "speaker", "sequence", "start_time", "end_time", "content",
       "sentiment", "profane" >>

Range(s) == {s[i] : i \in 1..Len(s)}

\* the first key of `keys` that `map` lacks, or None
FirstMissing(map, keys) ==
    IF \A i \in 1..Len(keys) : keys[i] \in DOMAIN map THEN None
    ELSE LET i == CHOOSE i \in 1..Len(keys) :
                     /\ keys[i] \notin DOMAIN map
                     /\ \A j \in 1..(i - 1) : keys[j] \in DOMAIN map
         IN  keys[i]

\* one complete utterance entry
GoodUtt(n) ==
    [ speaker |-> IF n % 2 = 1 THEN "agent" ELSE "customer",
      sequence |-> n, start_time |-> 160 * (n - 1), end_time |-> 160 * n,
      content |-> "hello", sentiment |-> "neutral", profane |-> FALSE ]

\* an utterance entry the service sent without its speaker
BadUtt(n) == Without(GoodUtt(n), "speaker")

\* the required top-level keys only
RequiredDoc ==
    [ name |-> "call1", extension |-> ".wav", rate |-> 16000,
      bit_depth |-> 16, channels |-> 1, duration |-> 48000,
      min_freq |-> 80, max_freq |-> 8000, rms_loud |-> 1,
      zero_cross |-> 100, spec_cent |-> 200, spec_bw |-> 300,
      spec_flat |-> 400, rolloff |-> 500, chroma_stft |-> <<1, 2>>,
      spec_contr |-> <<3>>, tonnetz |-> <<4>>, mfcc |-> <<5, 6>>,
      conflict |-> FALSE, silence |-> 1600 ]

\* an optional key: <<>> leaves it out, <<v>> sets it to v
AddOpt(map, key, opt) == IF opt = <<>> THEN map ELSE With(map, key, opt[1])

\* n complete utterance entries
GoodUtts(n) == [i \in 1..n |-> GoodUtt(i)]

\* n utterance entries, the last one incomplete
BadLastUtts(n) == [i \in 1..n |-> IF i = n THEN BadUtt(i) ELSE GoodUtt(i)]

\* the topic the service may report
ResultTopics == {"A"}

\* documents with every required key, every utterance entry complete
ValidDocs ==
    { AddOpt(AddOpt(AddOpt(RequiredDoc, "summary", s), "topic", tp),
             "utterances", u) :
        s \in {<<>>, <<"summary text">>},
        tp \in {<<>>} \cup {<<n>> : n \in ResultTopics},
        u \in {<<>>} \cup {<<GoodUtts(n)>> : n \in 0..MaxUtt} }

\* the §8 document: topic, summary and one utterance
FullDoc ==
    With(With(With(RequiredDoc, "summary", "summary text"), "topic", "A"),
         "utterances", GoodUtts(1))

\* the required top-level keys whose absence is tried
MissedKeys == {"name", "silence"}

\* documents that lack a required key, at the top level or in the last utterance
InvalidDocs ==
    {Without(FullDoc, k) : k \in MissedKeys}
      \cup {With(FullDoc, "utterances", BadLastUtts(n)) : n \in 1..MaxUtt}

ResultDocs == ValidDocs \cup InvalidDocs

\* spec.md §6: every required key present, each utterance entry complete
IsValidDoc(d) ==
    /\ Range(FileKeys) \subseteq DOMAIN d
    /\ \A i \in 1..Len(GetOr(d, "utterances", <<>>)) :
           Range(UttKeys) \subseteq DOMAIN d["utterances"][i]

-----------------------------------------------------------------------------
(* apps/callytics/clients.py *)

\* body of a non-success response
ErrorBody == [detail |-> "Internal Server Error"]

\* what can happen to one request to settings.CALLYTICS_URL
Environments ==
    {[kind |-> k, body |-> ErrorBody] :
        k \in {"unreadable", "unreachable", "status_error", "not_json"}}
      \cup {[kind |-> "json", body |-> d] : d \in ResultDocs}

\* call_callytics without resp.raise_for_status()
call_callytics_unchecked(audio_path, metadata, env) ==
    CASE env.kind = "unreadable"  -> [exc |-> "OSError", value |-> Unset]
      [] env.kind = "unreachable" -> [exc |-> "RequestException", value |-> Unset]
      [] env.kind = "not_json"    -> [exc |-> "JSONDecodeError", value |-> Unset]
      [] OTHER                    -> [exc |-> None, value |-> env.body]

\* call_callytics: open, post with timeout=120, raise_for_status, json
call_callytics(audio_path, metadata, env) ==
    CASE env.kind = "unreadable"   -> [exc |-> "OSError", value |-> Unset]
      [] env.kind = "unreachable"  -> [exc |-> "RequestException", value |-> Unset]
      [] env.kind = "status_error" -> [exc |-> "HTTPError", value |-> Unset]
      [] env.kind = "not_json"     -> [exc |-> "JSONDecodeError", value |-> Unset]
      [] OTHER                     -> [exc |-> None, value |-> env.body]

-----------------------------------------------------------------------------
(* apps/callytics/models.py: the three tables *)

\* Topic.objects.filter(name=name): name is no unique column
TopicsNamed(name) == {t \in topics : t.name = name}

\* a CharField declared with null=True
Nullable(value) == TRUE

\* CharField(max_length=100) without null=True: NULL is refused
NotNull(value) == value # None

\* Topic(name=...): CharField without null=True, a NOT NULL column
TopicRow(id, name) == [id |-> id, name |-> name]

\* the File row run_callytics_pipeline builds from the result document
FileRow(id, topic, audio_path, result) ==
    [ id |-> id, topic |-> topic, path |-> audio_path,
      name |-> result["name"], extension |-> result["extension"],
      rate |-> result["rate"], bit_depth |-> result["bit_depth"],
      channels |-> result["channels"], duration |-> result["duration"],
      min_freq |-> result["min_freq"], max_freq |-> result["max_freq"],
      rms_loud |-> result["rms_loud"], zero_cross |-> result["zero_cross"],
      spec_cent |-> result["spec_cent"], spec_bw |-> result["spec_bw"],
      spec_flat |-> result["spec_flat"], rolloff |-> result["rolloff"],
      chroma_stft |-> result["chroma_stft"],
      spec_contr |-> result["spec_contr"], tonnetz |-> result["tonnetz"],
      mfcc |-> result["mfcc"], summary |-> GetOr(result, "summary", ""),
      conflict |-> result["conflict"], silence |-> result["silence"] ]

\* the Utterance row run_callytics_pipeline builds from one utterances entry
UtteranceRow(id, file, utt) ==
    [ id |-> id, file |-> file, speaker |-> utt["speaker"],
      sequence |-> utt["sequence"], start_time |-> utt["start_time"],
      end_time |-> utt["end_time"], content |-> utt["content"],
      sentiment |-> utt["sentiment"], profane |-> utt["profane"] ]

UtterancesOf(file) == {u \in utterances : u.file = file}

\* a column that references no table
NoForeignKey(id) == TRUE

\* File.topic = ForeignKey(Topic): the referenced Topic row exists
TopicExists(id) == \E r \in topics : r.id = id

\* Utterance.file = ForeignKey(File): the referenced File row exists
FileExists(id) == \E r \in files : r.id = id

-----------------------------------------------------------------------------
(* apps/callytics/tasks.py: run_callytics_pipeline *)

\* a task as .delay() leaves it in the queue: its arguments and, unassigned
\* yet, the locals of run_callytics_pipeline (resp: what became of the HTTP
\* exchange inside call_callytics; created: the `_` of get_or_create)
NewTask(audio_path, metadata) ==
    [ pc |-> "queued", audio_path |-> audio_path, metadata |-> metadata,
      resp |-> None, result |-> Unset, topic_name |-> None, topic |-> 0,
      created |-> FALSE, file_obj |-> 0, i |-> 0, exc |-> None, ret |-> 0 ]

\* a dispatch that never reaches the broker
EnqueueLost(queue, task) == queue

\* .delay(): the message is put on the broker's queue, once
Enqueue(queue, task) == Append(queue, task)

\* the task states of spec.md §4.3
Status(t) ==
    CASE tasks[t].pc = "queued"    -> "Queued"
      [] tasks[t].pc = "succeeded" -> "Succeeded"
      [] tasks[t].pc = "failed"    -> "Failed"
      [] OTHER                     -> "Running"

\* an exception leaves the task function: Celery marks the task failed
Raise(t, exc) == [tasks EXCEPT ![t].pc = "failed", ![t].exc = exc]

\* the two operands of the `or` swapped
ResolveTopicNameResultFirst(metadata, result) ==
    Or(Get(result, "topic"), Get(metadata, "topic_name"))

\* topic_name = metadata.get("topic_name") or result.get("topic")
ResolveTopicName(metadata, result) ==
    Or(Get(metadata, "topic_name"), Get(result, "topic"))

\* result.get("utterances", [])
UtterancesIn(result) == GetOr(result, "utterances", <<>>)

\* a worker takes the task off the queue
Start(t) ==
    /\ tasks[t].pc = "queued"
    /\ tasks' = [tasks EXCEPT ![t].pc = "call"]
    /\ UNCHANGED <<topics, files, utterances, seqs, uploads, consultVars,
                   settingsVars>>

\* result = call_callytics(audio_path, metadata)
Call(t, env) ==
    /\ tasks[t].pc = "call"
    /\ LET r == call_callytics(tasks[t].audio_path, tasks[t].metadata, env)
       IN  tasks' = IF r.exc # None
                    THEN [Raise(t, r.exc) EXCEPT ![t].resp = env.kind]
                    ELSE [tasks EXCEPT ![t].pc = "topic_get",
                                       ![t].resp = env.kind,
                                       ![t].result = r.value]
    /\ UNCHANGED <<topics, files, utterances, seqs, uploads, consultVars,
                   settingsVars>>

\* Topic.objects.filter(name=topic_name).first(): of several rows, one
TopicGetFirst(t) ==
    /\ tasks[t].pc = "topic_get"
    /\ LET name == ResolveTopicName(tasks[t].metadata, tasks[t].result)
           found == TopicsNamed(name)
       IN  tasks' =
             IF found = {}
             THEN [tasks EXCEPT ![t].pc = "topic_create",
                                ![t].topic_name = name]
             ELSE [tasks EXCEPT ![t].pc = "file_create",
                                ![t].topic_name = name,
                                ![t].created = FALSE,
                                ![t].topic =
                                    (CHOOSE r \in found :
                                        \A q \in found : r.id <= q.id).id]
    /\ UNCHANGED <<topics, files, utterances, seqs, uploads, consultVars,
                   settingsVars>>

\* Topic.objects.get_or_create(name=topic_name): its first statement, get()
TopicGet(t) ==
    /\ tasks[t].pc = "topic_get"
    /\ LET name == ResolveTopicName(tasks[t].metadata, tasks[t].result)
           found == TopicsNamed(name)
       IN  tasks' =
             CASE Cardinality(found) = 0 ->
                    [tasks EXCEPT ![t].pc = "topic_create",
                                  ![t].topic_name = name]
               [] Cardinality(found) = 1 ->
                    [tasks EXCEPT ![t].pc = "file_create",
                                  ![t].topic_name = name,
                                  ![t].created = FALSE,
                                  ![t].topic = (CHOOSE r \in found : TRUE).id]
               [] OTHER ->
                    [Raise(t, "MultipleObjectsReturned")
                        EXCEPT ![t].topic_name = name]
    /\ UNCHANGED <<topics, files, utterances, seqs, uploads, consultVars,
                   settingsVars>>

\* get_or_create after DoesNotExist: create(); a NULL name is refused
TopicCreate(t) ==
    /\ tasks[t].pc = "topic_create"
    /\ IF ~NotNull(tasks[t].topic_name)
       THEN /\ tasks' = Raise(t, "IntegrityError")
            /\ UNCHANGED <<topics, seqs>>
       ELSE /\ topics' = topics \cup
                           {TopicRow(seqs.topic + 1, tasks[t].topic_name)}
            /\ seqs' = [seqs EXCEPT !.topic = @ + 1]
            /\ tasks' = [tasks EXCEPT ![t].pc = "file_create",
                                      ![t].created = TRUE,
                                      ![t].topic = seqs.topic + 1]
    /\ UNCHANGED <<files, utterances, uploads, consultVars,
                   settingsVars>>

\* File.objects.update_or_create(path=audio_path, defaults=...): the row of
\* an earlier run on the same path is overwritten
FileUpdateOrCreate(t) ==
    /\ tasks[t].pc = "file_create"
    /\ IF FirstMissing(tasks[t].result, FileKeys) # None
       THEN /\ tasks' = Raise(t, "KeyError")
            /\ UNCHANGED <<files, seqs>>
       ELSE IF ~TopicExists(tasks[t].topic)
       THEN /\ tasks' = Raise(t, "IntegrityError")
            /\ UNCHANGED <<files, seqs>>
       ELSE IF \E f \in files : f.path = tasks[t].audio_path
       THEN LET old == CHOOSE f \in files : f.path = tasks[t].audio_path
            IN  /\ files' = (files \ {old}) \cup
                               {FileRow(old.id, tasks[t].topic,
                                        tasks[t].audio_path, tasks[t].result)}
                /\ tasks' = [tasks EXCEPT ![t].pc = "utt_create",
                                          ![t].file_obj = old.id]
                /\ UNCHANGED seqs
       ELSE /\ files' = files \cup
                          {FileRow(seqs.file + 1, tasks[t].topic,
                                   tasks[t].audio_path, tasks[t].result)}
            /\ seqs' = [seqs EXCEPT !.file = @ + 1]
            /\ tasks' = [tasks EXCEPT ![t].pc = "utt_create",
                                      ![t].file_obj = seqs.file + 1]
    /\ UNCHANGED <<topics, utterances, uploads, consultVars,
                   settingsVars>>

\* file_obj = File.objects.create(...): the arguments, then the INSERT
FileCreate(t) ==
    /\ tasks[t].pc = "file_create"
    /\ IF FirstMissing(tasks[t].result, FileKeys) # None
       THEN /\ tasks' = Raise(t, "KeyError")
            /\ UNCHANGED <<files, seqs>>
       ELSE IF ~TopicExists(tasks[t].topic)
       THEN /\ tasks' = Raise(t, "IntegrityError")
            /\ UNCHANGED <<files, seqs>>
       ELSE /\ files' = files \cup
                          {FileRow(seqs.file + 1, tasks[t].topic,
                                   tasks[t].audio_path, tasks[t].result)}
            /\ seqs' = [seqs EXCEPT !.file = @ + 1]
            /\ tasks' = [tasks EXCEPT ![t].pc = "utt_create",
                                      ![t].file_obj = seqs.file + 1]
    /\ UNCHANGED <<topics, utterances, uploads, consultVars,
                   settingsVars>>

\* one turn of the for loop: Utterance.objects.create(...)
UttCreate(t) ==
    /\ tasks[t].pc = "utt_create"
    /\ tasks[t].i < Len(UtterancesIn(tasks[t].result))
    /\ LET utt == UtterancesIn(tasks[t].result)[tasks[t].i + 1]
       IN  IF FirstMissing(utt, UttKeys) # None
           THEN /\ tasks' = Raise(t, "KeyError")
                /\ UNCHANGED <<utterances, seqs>>
           ELSE IF ~FileExists(tasks[t].file_obj)
           THEN /\ tasks' = Raise(t, "IntegrityError")
                /\ UNCHANGED <<utterances, seqs>>
           ELSE /\ utterances' = utterances \cup
                      {UtteranceRow(seqs.utterance + 1, tasks[t].file_obj, utt)}
                /\ seqs' = [seqs EXCEPT !.utterance = @ + 1]
                /\ tasks' = [tasks EXCEPT ![t].i = @ + 1]
    /\ UNCHANGED <<topics, files, uploads, consultVars,
                   settingsVars>>

\* return topic.id
ReturnTopicId(t) ==
    /\ tasks[t].pc = "utt_create"
    /\ tasks[t].i = Len(UtterancesIn(tasks[t].result))
    /\ tasks' = [tasks EXCEPT ![t].pc = "succeeded",
                              ![t].ret = tasks[t].topic]
    /\ UNCHANGED <<topics, files, utterances, seqs, uploads, consultVars,
                   settingsVars>>

\* return file_obj.id
Return(t) ==
    /\ tasks[t].pc = "utt_create"
    /\ tasks[t].i = Len(UtterancesIn(tasks[t].result))
    /\ tasks' = [tasks EXCEPT ![t].pc = "succeeded",
                              ![t].ret = tasks[t].file_obj]
    /\ UNCHANGED <<topics, files, utterances, seqs, uploads, consultVars,
                   settingsVars>>

\* topic.delete(): on_delete=CASCADE removes its Files and their Utterances
DeleteTopic(id) ==
    /\ TopicExists(id)
    /\ topics' = {r \in topics : r.id # id}
    /\ files' = {f \in files : f.topic # id}
    /\ utterances' = {u \in utterances :
                         \E f \in files : f.id = u.file /\ f.topic # id}
    /\ UNCHANGED <<seqs, tasks, uploads, consultVars, settingsVars>>

\* file.delete(): on_delete=CASCADE removes its Utterances
DeleteFile(id) ==
    /\ FileExists(id)
    /\ files' = {f \in files : f.id # id}
    /\ utterances' = {u \in utterances : u.file # id}
    /\ UNCHANGED <<topics, seqs, tasks, uploads, consultVars, settingsVars>>

\* the metadata of the documented direct dispatch,
\* run_callytics_pipeline.delay("/path/to/audio.wav", {"topic_name": ...})
DirectMetadata ==
    {[user_id |-> 1]} \cup {[user_id |-> 1, topic_name |-> n] : n \in {"", "B"}}

DirectPaths == {"/path/to/audio.wav"}

\* run_callytics_pipeline.delay(audio_path, metadata), with at most `bound`
\* tasks dispatched in all
Delay(audio_path, metadata, bound) ==
    /\ Len(tasks) < bound
    /\ tasks' = Enqueue(tasks, NewTask(audio_path, metadata))
    /\ UNCHANGED <<topics, files, utterances, seqs, uploads, consultVars,
                   settingsVars>>

-----------------------------------------------------------------------------
(* apps/callytics/serializers.py, apps/callytics/views.py *)

\* str.lower() on the gender values tried
Lower(s) == CASE s = "Male" -> "male" [] s = "FEMALE" -> "female" [] OTHER -> s

\* the fields FileUploadSerializer declares, all required
SerializerFields == {"audio", "user_id", "gender", "age"}

\* FileUploadSerializer.validate_gender
GenderOk(value) == Lower(value) \in {"male", "female", "other"}

\* serializer.is_valid()
IsValid(data) ==
    /\ SerializerFields \subseteq DOMAIN data
    /\ GenderOk(data["gender"])

\* serializer.validated_data: the declared fields, gender lowercased
ValidatedData(data) ==
    [k \in SerializerFields |->
        IF k = "gender" THEN Lower(data[k]) ELSE data[k]]

\* the metadata dict FileUploadView.post builds
UploadMetadata(validated_data) ==
    [ user_id |-> validated_data["user_id"],
      gender |-> validated_data["gender"],
      age |-> validated_data["age"] ]

\* os.path.splitext(name)[1] on the file names tried
Ext(name) == CASE name = "call.wav" -> ".wav" [] OTHER -> ""

\* os.path.join(MEDIA_ROOT, "uploads/<uuid4 hex><ext>"): the n-th uuid drawn
UploadPath(n, name) == "/media/uploads/" \o ToString(n) \o Ext(name)

\* multipart bodies POSTed to the upload endpoint
Requests ==
    LET ok == [audio |-> "call.wav", user_id |-> 1, gender |-> "Male",
               age |-> 30]
    IN  { ok, With(ok, "topic_name", "B"), [ok EXCEPT !.gender = "robot"],
          Without(ok, "audio") }

\* FileUploadView.post
Post(data) ==
    /\ Len(uploads) < MaxUploads
    /\ IF ~IsValid(data)
       THEN /\ uploads' = Append(uploads,
                 [data |-> data, status |-> 400, body |-> "invalid",
                  path |-> None])
            /\ UNCHANGED tasks
       ELSE LET full_path == UploadPath(Len(uploads) + 1,
                                        ValidatedData(data)["audio"])
            IN  /\ Len(tasks) < MaxTasks
                /\ tasks' = Enqueue(tasks,
                      NewTask(full_path, UploadMetadata(ValidatedData(data))))
                /\ uploads' = Append(uploads,
                      [data |-> data, status |-> 202, body |-> "processing",
                       path |-> full_path])
    /\ UNCHANGED <<topics, files, utterances, seqs, consultVars,
                   settingsVars>>

\* settings.py: CALLYTICS_URL is set, HOP_LENGTH is not
UnconfiguredSettings == [CALLYTICS_URL |-> "http://callytics/analyze"]

\* no property has been read yet
NoRead == [model |-> None, id |-> 0, property |-> None, exc |-> None,
           value |-> [num |-> 0, den |-> 1]]

\* empty tables, empty queue
InitStore ==
    /\ topics = {}
    /\ files = {}
    /\ utterances = {}
    /\ seqs = [topic |-> 0, file |-> 0, utterance |-> 0, emotion_score |-> 0,
               category |-> 0, script_metric |-> 0,
               result_classification |-> 0]
    /\ tasks = <<>>
    /\ uploads = <<>>
    /\ sessions = {}
    /\ emotionScores = {}
    /\ categories = {}
    /\ scriptMetrics = {}
    /\ resultClassifications = {}
    /\ dbResult = [table |-> None, op |-> None, session |-> None,
                   actor |-> None, exc |-> None]
    /\ seconds = NoRead

Init == InitStore /\ settings = UnconfiguredSettings

Next ==
    \/ \E p \in DirectPaths, m \in DirectMetadata : Delay(p, m, MaxTasks)
    \/ \E t \in 1..Len(tasks) : Start(t)
    \/ \E t \in 1..Len(tasks), env \in Environments : Call(t, env)
    \/ \E t \in 1..Len(tasks) : TopicGet(t)
    \/ \E t \in 1..Len(tasks) : TopicCreate(t)
    \/ \E t \in 1..Len(tasks) : FileCreate(t)
    \/ \E t \in 1..Len(tasks) : UttCreate(t)
    \/ \E t \in 1..Len(tasks) : Return(t)

Spec == Init /\ [][Next]_vars

\* the next statement of run t, once a worker has it: the call returns, is
\* refused or times out (timeout=120), and every ORM statement completes
Run(t) ==
    /\ t \in 1..Len(tasks)
    /\ \/ Start(t)
       \/ \E env \in Environments : Call(t, env)
       \/ TopicGet(t)
       \/ TopicCreate(t)
       \/ FileCreate(t)
       \/ UttCreate(t)
       \/ Return(t)

\* a worker keeps taking queued tasks and running them to their end
SpecLive == Spec /\ \A t \in 1..MaxTasks : WF_vars(Run(t))

\* the pipeline fed by the upload endpoint only
NextUpload ==
    \/ \E r \in Requests : Post(r)
    \/ \E t \in 1..Len(tasks) : Start(t)
    \/ \E t \in 1..Len(tasks), env \in Environments : Call(t, env)
    \/ \E t \in 1..Len(tasks) : TopicGet(t)
    \/ \E t \in 1..Len(tasks) : TopicCreate(t)
    \/ \E t \in 1..Len(tasks) : FileCreate(t)
    \/ \E t \in 1..Len(tasks) : UttCreate(t)
    \/ \E t \in 1..Len(tasks) : Return(t)

SpecUpload == Init /\ [][NextUpload]_vars

\* documents with which a run on its own succeeds under `metadata`; for the
\* repeated dispatch, those with a summary and at most one utterance
SuccessfulDocs(metadata) ==
    {d \in ValidDocs : /\ Truthy(ResolveTopicName(metadata, d))
                       /\ "summary" \in DOMAIN d
                       /\ Len(UtterancesIn(d)) <= 1}

\* the document every earlier run of the repeated dispatch received
SameDocs(t) ==
    {d \in SuccessfulDocs(tasks[t].metadata) :
        \A u \in 1..Len(tasks) : tasks[u].result \in {Unset, d}}

\* the same audio_path and metadata dispatched up to MaxDup times, every
\* run receiving the same successful document
NextDup ==
    \/ \E m \in DirectMetadata :
          /\ IF tasks = <<>> THEN TRUE ELSE m = tasks[1].metadata
          /\ Delay("/path/to/audio.wav", m, MaxDup)
    \/ \E t \in 1..Len(tasks) : Start(t)
    \/ \E t \in 1..Len(tasks) : \E d \in SameDocs(t) :
          Call(t, [kind |-> "json", body |-> d])
    \/ \E t \in 1..Len(tasks) : TopicGet(t)
    \/ \E t \in 1..Len(tasks) : TopicCreate(t)
    \/ \E t \in 1..Len(tasks) : FileCreate(t)
    \/ \E t \in 1..Len(tasks) : UttCreate(t)
    \/ \E t \in 1..Len(tasks) : Return(t)

SpecDup == Init /\ [][NextDup]_vars

\* complete documents with a topic, a summary and one or two utterances
DeleteDocs == {With(FullDoc, "utterances", GoodUtts(n)) : n \in 1..MaxUtt}

\* task runs interleaved with deletes of Topic and File rows
NextDelete ==
    \/ Delay("/path/to/audio.wav", [user_id |-> 1], MaxTasks)
    \/ \E t \in 1..Len(tasks) : Start(t)
    \/ \E t \in 1..Len(tasks) : \E d \in DeleteDocs :
          Call(t, [kind |-> "json", body |-> d])
    \/ \E t \in 1..Len(tasks) : TopicGet(t)
    \/ \E t \in 1..Len(tasks) : TopicCreate(t)
    \/ \E t \in 1..Len(tasks) : FileCreate(t)
    \/ \E t \in 1..Len(tasks) : UttCreate(t)
    \/ \E t \in 1..Len(tasks) : Return(t)
    \/ \E r \in topics : DeleteTopic(r.id)
    \/ \E f \in files : DeleteFile(f.id)

SpecDelete == Init /\ [][NextDelete]_vars

-----------------------------------------------------------------------------
(* apps/consultlytics/models.py *)

SessionIds == {"s1", "s2"}

\* EmotionScore.ACTOR_CHOICES
Actors == {"customer", "agent"}

\* a Session row; session_id is the primary key
SessionRow(session_id) ==
    [ session_id |-> session_id, speech_count |-> 2,
      consulting_text |-> "text", asr_segments |-> <<"customer", "agent">> ]

\* an EmotionScore row
EmotionScoreRow(id, session, actor) ==
    [ id |-> id, session |-> session, actor |-> actor,
      star1 |-> 0, star2 |-> 0, star3 |-> 0, star4 |-> 0, star5 |-> 1,
      avg_score |-> 5, label |-> "positive" ]

\* a schema without unique_together
NoUniqueTogether(rows, session, actor) == FALSE

\* Meta.unique_together = ("session", "actor"): the pair is already used
EmotionScoreConflict(rows, session, actor) ==
    \E r \in rows : r.session = session /\ r.actor = actor

\* ForeignKey(Session): the referenced row exists
SessionExists(session) == \E r \in sessions : r.session_id = session

\* Session.objects.create(session_id=...)
InsertSession(session_id) ==
    /\ IF SessionExists(session_id)
       THEN /\ dbResult' = [table |-> "Session", op |-> "insert",
                            session |-> session_id, actor |-> None,
                            exc |-> "IntegrityError"]
            /\ UNCHANGED sessions
       ELSE /\ dbResult' = [table |-> "Session", op |-> "insert",
                            session |-> session_id, actor |-> None,
                            exc |-> None]
            /\ sessions' = sessions \cup {SessionRow(session_id)}
    /\ UNCHANGED <<emotionScores, oneToOneVars, callyticsVars, settingsVars>>

\* EmotionScore.objects.create(session_id=..., actor=..., ...)
InsertEmotionScore(session, actor) ==
    /\ seqs.emotion_score < MaxInserts
    /\ IF \/ ~SessionExists(session)
          \/ EmotionScoreConflict(emotionScores, session, actor)
       THEN /\ dbResult' = [table |-> "EmotionScore", op |-> "insert",
                            session |-> session, actor |-> actor,
                            exc |-> "IntegrityError"]
            /\ UNCHANGED <<emotionScores, seqs>>
       ELSE /\ dbResult' = [table |-> "EmotionScore", op |-> "insert",
                            session |-> session, actor |-> actor,
                            exc |-> None]
            /\ emotionScores' = emotionScores \cup
                 {EmotionScoreRow(seqs.emotion_score + 1, session, actor)}
            /\ seqs' = [seqs EXCEPT !.emotion_score = @ + 1]
    /\ UNCHANGED <<sessions, oneToOneVars, topics, files, utterances, tasks,
                   uploads, settingsVars>>

\* session.delete(): on_delete=CASCADE removes the rows that reference it
DeleteSession(session_id) ==
    /\ SessionExists(session_id)
    /\ sessions' = {r \in sessions : r.session_id # session_id}
    /\ emotionScores' = {r \in emotionScores : r.session # session_id}
    /\ categories' = {r \in categories : r.session # session_id}
    /\ scriptMetrics' = {r \in scriptMetrics : r.session # session_id}
    /\ resultClassifications' =
          {r \in resultClassifications : r.session # session_id}
    /\ dbResult' = [table |-> "Session", op |-> "delete",
                    session |-> session_id, actor |-> None, exc |-> None]
    /\ UNCHANGED <<callyticsVars, settingsVars>>

NextConsult ==
    \/ \E s \in SessionIds : InsertSession(s)
    \/ \E s \in SessionIds, a \in Actors : InsertEmotionScore(s, a)
    \/ \E s \in SessionIds : DeleteSession(s)

SpecConsult == Init /\ [][NextConsult]_vars

\* a Category row
CategoryRow(id, session) ==
    [ id |-> id, session |-> session, mid_category |-> "billing",
      content_category |-> "inquiry", mid_category_id |-> 3,
      result_label |-> "satisfied", label_id |-> 1 ]

\* a ScriptMetric row
ScriptMetricRow(id, session) ==
    [ id |-> id, session |-> session, script_phrase_ratio |-> 1,
      honorific_ratio |-> 1, positive_word_ratio |-> 0,
      euphonious_word_ratio |-> 0, confirmation_ratio |-> 0,
      empathy_ratio |-> 0, apology_ratio |-> 0, request_ratio |-> 0,
      alternative_count |-> 2, conflict_flag |-> FALSE,
      manual_compliance_ratio |-> 1 ]

\* a ResultClassification row
ResultClassificationRow(id, session) ==
    [ id |-> id, session |-> session, label |-> "satisfied" ]

\* session declared as a plain ForeignKey, as TopNoun.session is
NoOneToOne(rows, session) == FALSE

\* OneToOneField(Session): the session already has its row
OneToOneConflict(rows, session) == \E r \in rows : r.session = session

\* the outcome of an INSERT into one of the three one-to-one tables
OneToOneResult(table, rows, session) ==
    [ table |-> table, op |-> "insert", session |-> session, actor |-> None,
      exc |-> IF ~SessionExists(session) \/ OneToOneConflict(rows, session)
              THEN "IntegrityError" ELSE None ]

\* Category.objects.create(session_id=..., ...)
InsertCategory(session) ==
    /\ seqs.category < MaxOneToOne
    /\ dbResult' = OneToOneResult("Category", categories, session)
    /\ IF dbResult'.exc # None
       THEN UNCHANGED <<categories, seqs>>
       ELSE /\ categories' = categories \cup
                  {CategoryRow(seqs.category + 1, session)}
            /\ seqs' = [seqs EXCEPT !.category = @ + 1]
    /\ UNCHANGED <<sessions, emotionScores, scriptMetrics,
                   resultClassifications, topics, files, utterances, tasks,
                   uploads, settingsVars>>

\* ScriptMetric.objects.create(session_id=..., ...)
InsertScriptMetric(session) ==
    /\ seqs.script_metric < MaxOneToOne
    /\ dbResult' = OneToOneResult("ScriptMetric", scriptMetrics, session)
    /\ IF dbResult'.exc # None
       THEN UNCHANGED <<scriptMetrics, seqs>>
       ELSE /\ scriptMetrics' = scriptMetrics \cup
                  {ScriptMetricRow(seqs.script_metric + 1, session)}
            /\ seqs' = [seqs EXCEPT !.script_metric = @ + 1]
    /\ UNCHANGED <<sessions, emotionScores, categories,
                   resultClassifications, topics, files, utterances, tasks,
                   uploads, settingsVars>>

\* ResultClassification.objects.create(session_id=..., label=...)
InsertResultClassification(session) ==
    /\ seqs.result_classification < MaxOneToOne
    /\ dbResult' = OneToOneResult("ResultClassification",
                                  resultClassifications, session)
    /\ IF dbResult'.exc # None
       THEN UNCHANGED <<resultClassifications, seqs>>
       ELSE /\ resultClassifications' = resultClassifications \cup
                  {ResultClassificationRow(seqs.result_classification + 1,
                                           session)}
            /\ seqs' = [seqs EXCEPT !.result_classification = @ + 1]
    /\ UNCHANGED <<sessions, emotionScores, categories, scriptMetrics,
                   topics, files, utterances, tasks, uploads, settingsVars>>

\* the three tables that hold one row per session
NextOneToOne ==
    \/ \E s \in SessionIds : InsertSession(s)
    \/ \E s \in SessionIds : InsertCategory(s)
    \/ \E s \in SessionIds : InsertScriptMetric(s)
    \/ \E s \in SessionIds : InsertResultClassification(s)
    \/ \E s \in SessionIds : DeleteSession(s)

SpecOneToOne == Init /\ [][NextOneToOne]_vars

-----------------------------------------------------------------------------
(* apps/callytics/models.py: duration_seconds, silence_seconds *)

Abs(n) == IF n < 0 THEN -n ELSE n

RECURSIVE Gcd(_, _)
\* greatest common divisor of two naturals
Gcd(a, b) == IF b = 0 THEN a ELSE Gcd(b, a % b)

\* Python's int // int for a non-zero divisor, as a fraction
FloorDiv(a, b) ==
    IF b = 0 THEN [exc |-> "ZeroDivisionError", value |-> [num |-> 0, den |-> 1]]
    ELSE [exc |-> None,
          value |-> [num |-> IF b > 0 THEN a \div b ELSE (-a) \div (-b),
                     den |-> 1]]

\* Python's int / int: the quotient as a fraction in lowest terms with a
\* positive denominator, ZeroDivisionError for a zero divisor
TrueDiv(a, b) ==
    IF b = 0 THEN [exc |-> "ZeroDivisionError", value |-> [num |-> 0, den |-> 1]]
    ELSE LET g == Gcd(Abs(a), Abs(b))
             sign == IF b < 0 THEN -1 ELSE 1
         IN  [exc |-> None,
              value |-> [num |-> sign * (a \div g), den |-> sign * (b \div g)]]

\* getattr(settings, "HOP_LENGTH", 512)
HopLength == GetOr(settings, "HOP_LENGTH", 512)

\* File.duration_seconds
File_duration_seconds(self) ==
    LET hop_length == HopLength
        sr == self.rate
    IN  TrueDiv(self.duration * hop_length, sr)

\* File.silence_seconds
File_silence_seconds(self) ==
    LET hop_length == HopLength
        sr == self.rate
    IN  TrueDiv(self.silence * hop_length, sr)

\* utterance.file: the File row its foreign key names
FileOf(self) == CHOOSE f \in files : f.id = self.file

\* Utterance.duration_seconds
Utterance_duration_seconds(self) ==
    LET hop_length == HopLength
        sr == FileOf(self).rate
    IN  TrueDiv((self.end_time - self.start_time) * hop_length, sr)

\* what reading a property leaves behind
SecondsRead(model, id, property, result) ==
    [model |-> model, id |-> id, property |-> property, exc |-> result.exc,
     value |-> result.value]

\* file.duration_seconds
ReadFileDuration(f) ==
    /\ f \in files
    /\ seconds' = SecondsRead("File", f.id, "duration_seconds",
                              File_duration_seconds(f))
    /\ UNCHANGED <<callyticsVars, consultVars, settings>>

\* file.silence_seconds
ReadFileSilence(f) ==
    /\ f \in files
    /\ seconds' = SecondsRead("File", f.id, "silence_seconds",
                              File_silence_seconds(f))
    /\ UNCHANGED <<callyticsVars, consultVars, settings>>

\* utterance.duration_seconds
ReadUtteranceDuration(u) ==
    /\ u \in utterances
    /\ seconds' = SecondsRead("Utterance", u.id, "duration_seconds",
                              Utterance_duration_seconds(u))
    /\ UNCHANGED <<callyticsVars, consultVars, settings>>

\* the HOP_LENGTH values a deployment may configure
HopLengths == {256, 512}

\* settings.py with and without HOP_LENGTH
SettingsChoices ==
    {UnconfiguredSettings}
      \cup {With(UnconfiguredSettings, "HOP_LENGTH", h) : h \in HopLengths}

\* sampling rates and frame counts the service may report
Rates == {16000, 8000, 0}
Durations == {48000, 1}

\* complete documents that differ in rate and duration
SecondsDocs ==
    {With(With(FullDoc, "rate", r), "duration", n) :
        r \in Rates, n \in Durations}

InitSeconds == InitStore /\ settings \in SettingsChoices

\* runs that persist documents of several rates, and reads of the seconds
\* properties of the rows they leave
NextSeconds ==
    \/ Delay("/path/to/audio.wav", [user_id |-> 1], MaxTasks)
    \/ \E t \in 1..Len(tasks) : Start(t)
    \/ \E t \in 1..Len(tasks) : \E d \in SecondsDocs :
          Call(t, [kind |-> "json", body |-> d])
    \/ \E t \in 1..Len(tasks) : TopicGet(t)
    \/ \E t \in 1..Len(tasks) : TopicCreate(t)
    \/ \E t \in 1..Len(tasks) : FileCreate(t)
    \/ \E t \in 1..Len(tasks) : UttCreate(t)
    \/ \E t \in 1..Len(tasks) : Return(t)
    \/ \E f \in files : ReadFileDuration(f)
    \/ \E f \in files : ReadFileSilence(f)
    \/ \E u \in utterances : ReadUtteranceDuration(u)

SpecSeconds == InitSeconds /\ [][NextSeconds]_vars

-----------------------------------------------------------------------------
(* Properties of the pipeline *)

Finished(t) == tasks[t].pc \in {"succeeded", "failed"}

\* the rows of the store a run can tell it inserted: the File it holds in
\* file_obj with that File's Utterances, and the Topic it created
NoFileOf(t) ==
    /\ ~\E f \in files : f.id = tasks[t].file_obj
    /\ UtterancesOf(tasks[t].file_obj) = {}

WroteNothing(t) ==
    /\ ~tasks[t].created
    /\ tasks[t].file_obj = 0
    /\ tasks[t].i = 0

\* C1: a run that fails after inserting its File row and before inserting
\* all of its Utterance rows leaves no File row and no Utterance row of that
\* run in the store.
C1_FailedRunLeavesNoRows ==
    \A t \in 1..Len(tasks) : tasks[t].pc = "failed" => NoFileOf(t)

\* C2: however tasks that resolve the same new topic name interleave, the
\* store never holds two Topic rows with one name.
C2_TopicNameUnique ==
    \A a \in topics, b \in topics : a.name = b.name => a.id = b.id

\* C3: a run whose call returned a valid document ends succeeded, has added
\* exactly one File row and len(result.utterances) Utterance rows that all
\* reference it, and returns that File's id.
C3_ValidDocumentPersisted ==
    \A t \in 1..Len(tasks) :
        (Finished(t) /\ IsValidDoc(tasks[t].result)) =>
            /\ tasks[t].pc = "succeeded"
            /\ tasks[t].ret = tasks[t].file_obj
            /\ Cardinality({f \in files : f.id = tasks[t].ret}) = 1
            /\ Cardinality(UtterancesOf(tasks[t].ret))
                 = Len(UtterancesIn(tasks[t].result))

\* the ways the external call fails
FailedExchanges == {"unreadable", "unreachable", "status_error", "not_json"}

\* C4: whenever the external call fails (file unreadable, request not sent
\* or timed out, non-success status, unparsable body) the task ends failed
\* and the run has written no Topic, File or Utterance row; the failing
\* step leaves the three tables as they were.
C4_CallFailureWritesNothing ==
    /\ [](\A t \in 1..Len(tasks) :
            tasks[t].resp \in FailedExchanges =>
                /\ tasks[t].pc = "failed"
                /\ tasks[t].exc \in {"OSError", "RequestException",
                                     "HTTPError", "JSONDecodeError"}
                /\ tasks[t].result = Unset
                /\ WroteNothing(t))
    /\ [][\A t \in 1..Len(tasks) :
            (tasks[t].pc = "call" /\ tasks'[t].pc # "call") =>
                UNCHANGED <<topics, files, utterances, seqs>>]_vars

\* a run has failed on a non-success status, carrying a topic_name it
\* never got to resolve, while another run has put rows in the store
C4_Witness ==
    \E t \in 1..Len(tasks), u \in 1..Len(tasks) :
        /\ tasks[t].resp = "status_error"
        /\ tasks[t].pc = "failed"
        /\ Truthy(Get(tasks[t].metadata, "topic_name"))
        /\ tasks[u].pc = "succeeded"
        /\ UtterancesOf(tasks[u].ret) # {}

\* C5: when the document lacks a required key the task fails before any
\* persistence step: the run has written no Topic, File or Utterance row.
C5_MissingKeyFailsBeforeWrites ==
    \A t \in 1..Len(tasks) :
        (tasks[t].pc = "failed" /\ tasks[t].exc = "KeyError") =>
            WroteNothing(t)

\* the tasks enqueued for an upload: its stored path is drawn afresh
TasksOf(u) == {t \in 1..Len(tasks) : tasks[t].audio_path = uploads[u].path}

\* C6: every upload that passes validation enqueues exactly one task and is
\* answered 202 'processing' while that task is still queued; the answer,
\* once given, is the same whatever becomes of the task.
C6_AcceptedWithoutWaiting ==
    /\ [](\A u \in 1..Len(uploads) :
            IsValid(uploads[u].data) =>
                /\ uploads[u].status = 202
                /\ uploads[u].body = "processing"
                /\ Cardinality(TasksOf(u)) = 1)
    /\ [][Len(uploads') > Len(uploads) =>
            LET u == Len(uploads')
            IN  uploads'[u].status = 202 =>
                  /\ Len(tasks') = Len(tasks) + 1
                  /\ tasks'[Len(tasks')].audio_path = uploads'[u].path
                  /\ tasks'[Len(tasks')].pc = "queued"
                  /\ \A t \in 1..Len(tasks) : tasks'[t] = tasks[t]
                  /\ UNCHANGED <<topics, files, utterances>>]_vars
    /\ [][\A u \in 1..Len(uploads) : uploads'[u] = uploads[u]]_vars

\* one accepted upload whose task has failed, another whose task is still
\* running: both were answered 202
C6_Witness ==
    \E u \in 1..Len(uploads), v \in 1..Len(uploads) :
        /\ uploads[u].status = 202 /\ uploads[v].status = 202
        /\ \E t \in TasksOf(u) : tasks[t].pc = "failed"
        /\ \E t \in TasksOf(v) : Status(t) = "Running"

\* the names of the Topic rows the File of run t references
LinkedTopicNames(t) ==
    {tp.name : tp \in {x \in topics :
        \E f \in files : f.id = tasks[t].file_obj /\ f.topic = x.id}}

\* get_or_create as each run performs it: the one Topic its lookup finds is
\* reused, and when the lookup finds none the run goes on to insert one
\* Topic of the resolved name
GetOrCreateSteps ==
    \A t \in 1..Len(tasks) :
        LET found == TopicsNamed(ResolveTopicName(tasks[t].metadata,
                                                  tasks[t].result))
        IN  /\ (tasks[t].pc = "topic_get" /\ Cardinality(found) = 1) =>
                  \/ tasks'[t] = tasks[t]
                  \/ /\ tasks'[t].pc = "file_create"
                     /\ tasks'[t].topic \in {x.id : x \in found}
                     /\ topics' = topics
            /\ (tasks[t].pc = "topic_get" /\ tasks'[t].pc = "topic_create")
                  => found = {}
            /\ (tasks[t].pc = "topic_create" /\ tasks'[t].pc = "file_create")
                  => /\ Cardinality(topics') = Cardinality(topics) + 1
                     /\ \E x \in topics' \ topics :
                           /\ x.name = tasks[t].topic_name
                           /\ x.id = tasks'[t].topic
            /\ (tasks[t].pc \notin {"topic_create"} /\ tasks'[t] # tasks[t]
                  /\ \A u \in 1..Len(tasks) : u # t => tasks'[u] = tasks[u])
                  => topics' = topics

\* C7, as claimed: the File of a run is linked to the Topic named
\* metadata.topic_name whenever the metadata contains a topic_name entry,
\* and to result.topic only when it contains none; an existing Topic of
\* that name is reused, a new one is created only if none was found.
C7_NamedByMetadataIfPresent ==
    /\ [](\A t \in 1..Len(tasks) :
            tasks[t].file_obj # 0 =>
                LinkedTopicNames(t) =
                    {IF "topic_name" \in DOMAIN tasks[t].metadata
                     THEN tasks[t].metadata["topic_name"]
                     ELSE Get(tasks[t].result, "topic")})
    /\ [][GetOrCreateSteps]_vars

\* C7, amended: the File of a run is linked to the Topic named
\* metadata.topic_name whenever that entry is present and non-empty, and to
\* result.topic otherwise; the Topic the run's lookup finds with that name
\* is reused, a new one is created only if the lookup found none.
C7_NamedByMetadataIfNonEmpty ==
    /\ [](\A t \in 1..Len(tasks) :
            tasks[t].file_obj # 0 =>
                LinkedTopicNames(t) =
                    {IF /\ "topic_name" \in DOMAIN tasks[t].metadata
                        /\ tasks[t].metadata["topic_name"] # ""
                     THEN tasks[t].metadata["topic_name"]
                     ELSE Get(tasks[t].result, "topic")})
    /\ [][GetOrCreateSteps]_vars

\* a run with an empty topic_name in its metadata has linked its File to the
\* Topic the document names, and another run has reused a Topic it found
C7_Witness ==
    \E t \in 1..Len(tasks), u \in 1..Len(tasks) :
        /\ Get(tasks[t].metadata, "topic_name") = ""
        /\ tasks[t].file_obj # 0
        /\ LinkedTopicNames(t) = {"A"}
        /\ tasks[u].file_obj # 0
        /\ ~tasks[u].created

\* C8: a topic_name supplied in the upload request is in the metadata of the
\* enqueued task, and the File produced for the upload is linked to the
\* Topic of that name.
C8_UploadedTopicNameReachesTask ==
    \A u \in 1..Len(uploads) :
        (uploads[u].status = 202 /\ "topic_name" \in DOMAIN uploads[u].data)
            => \A t \in TasksOf(u) :
                  /\ Get(tasks[t].metadata, "topic_name")
                        = uploads[u].data["topic_name"]
                  /\ tasks[t].file_obj # 0 =>
                        LinkedTopicNames(t) = {uploads[u].data["topic_name"]}

\* C9: k runs dispatched with the same audio_path and metadata, each
\* receiving the same successful document, leave k distinct File rows of
\* that path, each with its full set of Utterance rows.
C9_EveryDuplicateRunPersists ==
    /\ \A t \in 1..Len(tasks) :
          Finished(t) =>
              /\ tasks[t].pc = "succeeded"
              /\ \E f \in files : /\ f.id = tasks[t].ret
                                  /\ f.path = tasks[t].audio_path
              /\ Cardinality(UtterancesOf(tasks[t].ret))
                    = Len(UtterancesIn(tasks[t].result))
    /\ \A t \in 1..Len(tasks), u \in 1..Len(tasks) :
          (t # u /\ tasks[t].pc = "succeeded" /\ tasks[u].pc = "succeeded")
              => tasks[t].ret # tasks[u].ret

-----------------------------------------------------------------------------
(* Properties of the Consultlytics schema *)

\* C10: no two EmotionScore rows share a (session, actor) pair; an insert
\* for a used pair is rejected and leaves the table as it was, an insert
\* for an unused pair of an existing session is accepted, whatever rows the
\* session's other actor has.
C10_EmotionScorePairUnique ==
    /\ [](\A a \in emotionScores, b \in emotionScores :
            (a.session = b.session /\ a.actor = b.actor) => a.id = b.id)
    /\ [][(dbResult'.table = "EmotionScore" /\ dbResult'.op = "insert") =>
            LET used == \E r \in emotionScores :
                           /\ r.session = dbResult'.session
                           /\ r.actor = dbResult'.actor
            IN  /\ used => /\ dbResult'.exc = "IntegrityError"
                           /\ emotionScores' = emotionScores
                /\ (~used /\ SessionExists(dbResult'.session)) =>
                       /\ dbResult'.exc = None
                       /\ \E r \in emotionScores' \ emotionScores :
                             /\ r.session = dbResult'.session
                             /\ r.actor = dbResult'.actor
                             /\ emotionScores' = emotionScores \cup {r}
          ]_vars

\* a second insert for a used pair has just been rejected, in a session that
\* holds a row for each of its two actors
C10_Witness ==
    /\ dbResult.table = "EmotionScore"
    /\ dbResult.op = "insert"
    /\ dbResult.exc = "IntegrityError"
    /\ \A a \in Actors :
          \E r \in emotionScores :
              r.session = dbResult.session /\ r.actor = a

\* the sessions of a one-to-one table are pairwise distinct
OnePerSession(rows) ==
    \A a \in rows, b \in rows : a.session = b.session => a.id = b.id

\* C11: each Session has at most one Category row, at most one ScriptMetric
\* row and at most one ResultClassification row; an insert of a second row
\* of one of these kinds for a session that already has one is rejected and
\* leaves the table as it was, and an insert for an existing session that
\* has none is accepted.
C11_OneRowPerSession ==
    /\ [](/\ OnePerSession(categories)
          /\ OnePerSession(scriptMetrics)
          /\ OnePerSession(resultClassifications))
    /\ [][dbResult'.op = "insert" =>
            LET s == dbResult'.session
                Settled(rows, rows2) ==
                    /\ (\E r \in rows : r.session = s) =>
                           /\ dbResult'.exc = "IntegrityError"
                           /\ rows2 = rows
                    /\ (SessionExists(s) /\ ~\E r \in rows : r.session = s) =>
                           /\ dbResult'.exc = None
                           /\ \E r \in rows2 \ rows :
                                 r.session = s /\ rows2 = rows \cup {r}
            IN  /\ dbResult'.table = "Category" =>
                       Settled(categories, categories')
                /\ dbResult'.table = "ScriptMetric" =>
                       Settled(scriptMetrics, scriptMetrics')
                /\ dbResult'.table = "ResultClassification" =>
                       Settled(resultClassifications, resultClassifications')
          ]_vars

\* a second ScriptMetric insert has just been rejected for a session that
\* holds one row of each of the three kinds
C11_Witness ==
    /\ dbResult.table = "ScriptMetric"
    /\ dbResult.op = "insert"
    /\ dbResult.exc = "IntegrityError"
    /\ \E r \in categories : r.session = dbResult.session
    /\ \E r \in scriptMetrics : r.session = dbResult.session
    /\ \E r \in resultClassifications : r.session = dbResult.session

\* the fraction v is the quotient a / b
IsQuotient(v, a, b) == b # 0 /\ v.den > 0 /\ v.num * b = v.den * a

\* C12: for every persisted File and each of its Utterances the seconds
\* values are the frame counts times the configured hop_length (512 when
\* HOP_LENGTH is not configured) divided by the File's rate:
\* duration_seconds = duration * hop_length / rate, silence_seconds =
\* silence * hop_length / rate, and an Utterance's duration_seconds =
\* (end_time - start_time) * hop_length / rate of the File it references;
\* 48000 frames at rate 16000 give 1536 and 160 frames give 5.12 = 128/25.
C12_SecondsFollowConversion ==
    LET hop == IF "HOP_LENGTH" \in DOMAIN settings
               THEN settings["HOP_LENGTH"] ELSE 512
        Follows(r, frames, rate) ==
            rate # 0 => /\ r.exc = None
                        /\ IsQuotient(r.value, frames * hop, rate)
    IN  /\ \A f \in files :
              /\ Follows(File_duration_seconds(f), f.duration, f.rate)
              /\ Follows(File_silence_seconds(f), f.silence, f.rate)
              /\ (hop = 512 /\ f.duration = 48000 /\ f.rate = 16000) =>
                     File_duration_seconds(f).value = [num |-> 1536, den |-> 1]
        /\ \A u \in utterances : \A f \in files :
              f.id = u.file =>
                 /\ Follows(Utterance_duration_seconds(u),
                            u.end_time - u.start_time, f.rate)
                 /\ (hop = 512 /\ u.end_time - u.start_time = 160
                       /\ f.rate = 16000) =>
                        Utterance_duration_seconds(u).value =
                            [num |-> 128, den |-> 25]
        /\ \A f \in files :
              (seconds.model = "File" /\ seconds.id = f.id) =>
                 Follows(seconds,
                         IF seconds.property = "duration_seconds"
                         THEN f.duration ELSE f.silence, f.rate)
        /\ \A u \in utterances : \A f \in files :
              (seconds.model = "Utterance" /\ seconds.id = u.id
                /\ f.id = u.file) =>
                 Follows(seconds, u.end_time - u.start_time, f.rate)

\* the duration of a 160-frame utterance has just been read as 5.12 seconds
\* from a File of rate 16000, while the store also holds a File of another
\* rate whose 48000 frames are 3072 seconds
C12_Witness ==
    /\ seconds.model = "Utterance"
    /\ seconds.exc = None
    /\ seconds.value = [num |-> 128, den |-> 25]
    /\ \E u \in utterances : \E f \in files :
          /\ u.id = seconds.id
          /\ f.id = u.file
          /\ f.rate = 16000
          /\ u.end_time - u.start_time = 160
    /\ \E g \in files :
          /\ g.rate = 8000
          /\ g.duration = 48000
          /\ File_duration_seconds(g).value = [num |-> 3072, den |-> 1]

\* C13: each task moves only along Queued -> Running -> Succeeded or Failed,
\* eventually reaches one of the two terminal states and stays in it with
\* its outcome unchanged; it is Succeeded(id) only when id is the id of the
\* File row that this run inserted.
C13_TaskStateMachine ==
    /\ [][\A t \in 1..Len(tasks) :
            /\ Status(t) = "Queued" => Status(t)' \in {"Queued", "Running"}
            /\ Status(t) = "Running" =>
                   Status(t)' \in {"Running", "Succeeded", "Failed"}
            /\ Finished(t) => tasks'[t] = tasks[t]
            /\ tasks'[t].file_obj # tasks[t].file_obj =>
                   /\ tasks[t].file_obj = 0
                   /\ Status(t) = "Running"
                   /\ \E f \in files' \ files :
                         /\ files' = files \cup {f}
                         /\ f.id = tasks'[t].file_obj
                         /\ f.path = tasks[t].audio_path
                         /\ \A u \in 1..Len(tasks) :
                               u # t => tasks'[u] = tasks[u]
          ]_vars
    /\ [](\A t \in 1..Len(tasks) :
            /\ Status(t) = "Succeeded" =>
                   /\ tasks[t].exc = None
                   /\ tasks[t].ret = tasks[t].file_obj
                   /\ \E f \in files : f.id = tasks[t].ret
                   /\ \A u \in 1..Len(tasks) :
                         (u # t /\ tasks[u].file_obj # 0) =>
                            tasks[u].file_obj # tasks[t].ret
            /\ Status(t) = "Failed" => tasks[t].exc # None /\ tasks[t].ret = 0)
    /\ \A t \in 1..MaxTasks :
          (t \in 1..Len(tasks)) ~> (t \in 1..Len(tasks) /\ Finished(t))

\* two runs have succeeded with the ids of their own File rows, the second
\* on the Topic row the first created
C13_Witness ==
    /\ Len(tasks) = 2
    /\ Status(1) = "Succeeded"
    /\ Status(2) = "Succeeded"
    /\ tasks[1].ret # tasks[2].ret
    /\ tasks[1].topic = tasks[2].topic
    /\ \E f \in files : f.id = tasks[2].ret /\ f.id # f.topic

\* C14: in every state, also while the run that builds it is still Running,
\* every File row has exactly as many Utterance rows as the utterances list
\* of the result document it was built from.
C14_FileNeverPartial ==
    \A t \in 1..Len(tasks) :
        (\E f \in files : f.id = tasks[t].file_obj) =>
            Cardinality(UtterancesOf(tasks[t].file_obj)) =
                Len(UtterancesIn(tasks[t].result))

\* C15: under the pipeline the File and Utterance tables only grow: every
\* step of every run, successful or failed, keeps each existing File and
\* Utterance row as it is and adds rows under ids no existing row has.
C15_AppendOnly ==
    [][/\ \A f \in files : f \in files'
       /\ \A u \in utterances : u \in utterances'
       /\ \A f \in files' \ files : ~\E g \in files : g.id = f.id
       /\ \A u \in utterances' \ utterances :
             ~\E v \in utterances : v.id = u.id
      ]_vars

\* the File of the first run and its Utterance are in the store after a
\* second run on the same path has added its own File and then failed
C15_Witness ==
    /\ Len(tasks) = 2
    /\ Status(1) = "Succeeded"
    /\ \E f \in files :
          /\ f.id = tasks[1].ret
          /\ f.path = tasks[2].audio_path
          /\ UtterancesOf(f.id) # {}
    /\ Status(2) = "Failed"
    /\ tasks[2].file_obj > tasks[1].ret
    /\ \E f \in files : f.id = tasks[2].file_obj

\* C16: in every state reached by task runs interleaved with cascading
\* deletes of Topic and File rows, every File row references exactly one
\* existing Topic row and every Utterance row exactly one existing File row.
C16_ReferentialIntegrity ==
    /\ \A f \in files : Cardinality({r \in topics : r.id = f.topic}) = 1
    /\ \A u \in utterances : Cardinality({f \in files : f.id = u.file}) = 1

\* a run whose Topic row was deleted under it has been refused its File,
\* while the store holds a File with an Utterance under another Topic
C16_Witness ==
    /\ \E t \in 1..Len(tasks) :
          /\ Status(t) = "Failed"
          /\ tasks[t].exc = "IntegrityError"
          /\ tasks[t].topic # 0
          /\ tasks[t].file_obj = 0
          /\ ~TopicExists(tasks[t].topic)
    /\ \E f \in files : UtterancesOf(f.id) # {}

\* the Topic rows that carry the name run t resolves
SameNameTopics(t) ==
    {r \in topics :
        r.name = ResolveTopicName(tasks[t].metadata, tasks[t].result)}

\* a run whose lookup happens while its name has two or more Topic rows
\* fails there with MultipleObjectsReturned and writes nothing, then or
\* later; the pipeline never removes a Topic row
ResolutionFailsOnDuplicates ==
    /\ [][/\ \A t \in 1..Len(tasks) :
              (/\ tasks[t].pc = "topic_get"
               /\ tasks'[t] # tasks[t]
               /\ Cardinality(SameNameTopics(t)) >= 2) =>
                  /\ tasks'[t].pc = "failed"
                  /\ tasks'[t].exc = "MultipleObjectsReturned"
                  /\ UNCHANGED <<topics, files, utterances>>
          /\ topics \subseteq topics'
         ]_vars
    /\ [](\A t \in 1..Len(tasks) :
            tasks[t].exc = "MultipleObjectsReturned" =>
                /\ tasks[t].pc = "failed"
                /\ Cardinality(SameNameTopics(t)) >= 2
                /\ WroteNothing(t))

\* C17, as claimed: once two or more Topic rows share a name, every run
\* that then resolves that name fails at the lookup and writes no File or
\* Utterance row, and no File row is ever again inserted under a Topic of
\* that name.
C17_NameNeverUsedAgain ==
    /\ ResolutionFailsOnDuplicates
    /\ [][\A f \in files' \ files : \A r \in topics :
            r.id = f.topic => Cardinality(TopicsNamed(r.name)) < 2]_vars

\* C17, amended: once two or more Topic rows share a name, every run that
\* resolves that name from then on fails at the lookup and writes no File
\* or Utterance row; only a run that had resolved its Topic before still
\* inserts its File under that name.
C17_LaterResolutionFails ==
    /\ ResolutionFailsOnDuplicates
    /\ [][\A t \in 1..Len(tasks) :
            (/\ tasks'[t].file_obj # tasks[t].file_obj
             /\ \E r \in topics :
                   /\ r.id = tasks[t].topic
                   /\ Cardinality(TopicsNamed(r.name)) >= 2) =>
                /\ tasks[t].pc = "file_create"
                /\ tasks[t].exc = None
                /\ tasks[t].topic # 0]_vars

\* two runs have raced to two Topic rows of one name and each has inserted
\* its File; the third run, resolving that name afterwards, has failed at
\* the lookup without writing
C17_Witness ==
    /\ Len(tasks) = 3
    /\ \E t \in 1..3 :
          /\ tasks[t].exc = "MultipleObjectsReturned"
          /\ Cardinality(SameNameTopics(t)) = 2
          /\ WroteNothing(t)
          /\ \A u \in (1..3) \ {t} :
                /\ tasks[u].created
                /\ Status(u) = "Succeeded"
                /\ \E f \in files : f.id = tasks[u].ret
                                        /\ f.topic = tasks[u].topic

\* run t received a document and neither its metadata nor the document
\* names a topic
ResolvesNoName(t) ==
    /\ tasks[t].result # Unset
    /\ ~Truthy(Get(tasks[t].metadata, "topic_name"))
    /\ "topic" \notin DOMAIN tasks[t].result

\* C18: a run that resolves no topic name fails at topic resolution, with
\* an IntegrityError from the Topic insert, and creates no Topic, File or
\* Utterance row, even when the document has every required key; no Topic
\* row has a null name, so no File is linked to one.
C18_NoNameFailsAtResolution ==
    /\ [](\A t \in 1..Len(tasks) :
            ResolvesNoName(t) =>
                /\ tasks[t].pc \in {"topic_get", "topic_create", "failed"}
                /\ WroteNothing(t)
                /\ tasks[t].topic = 0
                /\ tasks[t].pc = "failed" => tasks[t].exc = "IntegrityError")
    /\ [](\A r \in topics : r.name # None)
    /\ [](\A f \in files : \A r \in topics :
            r.id = f.topic => r.name # None)
    /\ [][\A t \in 1..Len(tasks) :
            (ResolvesNoName(t) /\ tasks'[t] # tasks[t]) =>
                UNCHANGED <<topics, files, utterances, seqs>>]_vars

\* a run given an empty topic_name and a complete document without a topic
\* has failed with IntegrityError, leaving the tables empty
C18_Witness ==
    \E t \in 1..Len(tasks) :
        /\ ResolvesNoName(t)
        /\ IsValidDoc(tasks[t].result)
        /\ UtterancesIn(tasks[t].result) # <<>>
        /\ Get(tasks[t].metadata, "topic_name") = ""
        /\ Status(t) = "Failed"
        /\ tasks[t].exc = "IntegrityError"
        /\ topics = {}
        /\ files = {}
        /\ utterances = {}

====
